---------------------------- MODULE Spec2Model ----------------------------
(***************************************************************************)
(* DDCalc_exampleC.cpp: the interactive example program of DDCalc.         *)
(*                                                                         *)
(* main() scans the command line, creates one Halo, one WIMP and four      *)
(* Detector objects in the library, then loops: GetWIMPParams reads one    *)
(* line of standard input and parses up to five numbers from it; while it  *)
(* returns true the WIMP is set, read back, the rates of the four          *)
(* detectors are computed and five rows of results are printed.  When it   *)
(* returns false the loop ends and DDCalc::FreeAll is called.              *)
(*                                                                         *)
(* The library is outside the program: the model keeps of it the objects   *)
(* it holds, the mass of the WIMP, and the sequence of calls made to it.   *)
(***************************************************************************)
EXTENDS Integers, Sequences, FiniteSets, TLC

\* ------------------------------------------------------------------ bounds

\* Longest argument vector (argv[1..argc-1]) the model starts from.
MaxArgs == 3

\* Most lines standard input delivers before it is at end of stream.
MaxLines == 2

\* ------------------------------------------------------- program constants

TYPE_MG == 1

TYPE_MFA == 2

\* The value of a variable declared without an initializer and not yet
\* assigned (int type, WIMP, Halo, ...; double M, xpSI, ...).
Indeterminate == -1

\* The number of fields GetWIMPParams extracts from a line.
NumFields == 5

\* -------------------------------------------------- std::istringstream >> double

Digits == <<"0", "1", "2", "3", "4", "5", "6", "7", "8", "9">>

IsDigit(c) == \E d \in 1..Len(Digits) : Digits[d] = c

DigitVal(c) == (CHOOSE d \in 1..Len(Digits) : Digits[d] = c) - 1

IsSpace(c) == c = " "

\* The sentry of a formatted input function: leading whitespace is skipped.
RECURSIVE SkipWs(_)
SkipWs(s) ==
  IF s # << >> /\ IsSpace(Head(s)) THEN SkipWs(Tail(s)) ELSE s

\* The length of the longest prefix of s made of digits.
RECURSIVE DigitPrefixLen(_)
DigitPrefixLen(s) ==
  IF s # << >> /\ IsDigit(Head(s)) THEN 1 + DigitPrefixLen(Tail(s)) ELSE 0

\* The number a sequence of digits denotes, the digits accumulated left to right.
RECURSIVE Num(_, _)
Num(acc, d) ==
  IF d = << >> THEN acc ELSE Num(10 * acc + DigitVal(Head(d)), Tail(d))

\* iss >> v on the characters iss still holds.  The extraction skips
\* whitespace, then takes the longest numeric prefix.  It fails at the end of
\* the characters (the sentry fails: v is left alone) and on a character no
\* number starts with (num_get fails: v is left alone by a C++98 library and
\* set to 0 since C++11, zeroOnFail).  What was not consumed stays in iss.
Extract(iss, v, zeroOnFail) ==
  LET s == SkipWs(iss)
      n == DigitPrefixLen(s)
  IN  IF s = << >> THEN [ok |-> FALSE, val |-> v, rest |-> s]
      ELSE IF n = 0 THEN [ok |-> FALSE, val |-> IF zeroOnFail THEN 0 ELSE v,
                          rest |-> s]
      ELSE [ok |-> TRUE, val |-> Num(0, SubSeq(s, 1, n)),
            rest |-> SubSeq(s, n + 1, Len(s))]

\* ------------------------------------------------------------ GetWIMPParams

\* GetWIMPParams with a missing fourth field zeroing xpSD alone: xnSD keeps
\* what it held.
GetWIMPParams_StaleSD(line, M0, xpSI0, xnSI0, xpSD0, xnSD0, zeroOnFail) ==
  LET r1 == Extract(line, M0, zeroOnFail)
      r2 == Extract(r1.rest, xpSI0, zeroOnFail)
      r3 == Extract(r2.rest, xnSI0, zeroOnFail)
      r4 == Extract(r3.rest, xpSD0, zeroOnFail)
      r5 == Extract(r4.rest, xnSD0, zeroOnFail)
  IN  IF ~r1.ok THEN
        [ret |-> FALSE, M |-> r1.val, xpSI |-> xpSI0, xnSI |-> xnSI0,
         xpSD |-> xpSD0, xnSD |-> xnSD0]
      ELSE IF ~r2.ok THEN
        [ret |-> FALSE, M |-> r1.val, xpSI |-> r2.val, xnSI |-> xnSI0,
         xpSD |-> xpSD0, xnSD |-> xnSD0]
      ELSE IF ~r3.ok THEN
        [ret |-> TRUE, M |-> r1.val, xpSI |-> r2.val, xnSI |-> r2.val,
         xpSD |-> 0, xnSD |-> 0]
      ELSE IF ~r4.ok THEN
        [ret |-> TRUE, M |-> r1.val, xpSI |-> r2.val, xnSI |-> r3.val,
         xpSD |-> 0, xnSD |-> xnSD0]
      ELSE IF ~r5.ok THEN
        [ret |-> TRUE, M |-> r1.val, xpSI |-> r2.val, xnSI |-> r3.val,
         xpSD |-> r4.val, xnSD |-> r4.val]
      ELSE
        [ret |-> TRUE, M |-> r1.val, xpSI |-> r2.val, xnSI |-> r3.val,
         xpSD |-> r4.val, xnSD |-> r5.val]

\* GetWIMPParams returning false on every failed read, the third to the
\* fifth included.
GetWIMPParams_Strict(line, M0, xpSI0, xnSI0, xpSD0, xnSD0, zeroOnFail) ==
  LET r1 == Extract(line, M0, zeroOnFail)
      r2 == Extract(r1.rest, xpSI0, zeroOnFail)
      r3 == Extract(r2.rest, xnSI0, zeroOnFail)
      r4 == Extract(r3.rest, xpSD0, zeroOnFail)
      r5 == Extract(r4.rest, xnSD0, zeroOnFail)
  IN  [ret |-> r1.ok /\ r2.ok /\ r3.ok /\ r4.ok /\ r5.ok,
       M |-> r1.val,
       xpSI |-> IF r1.ok THEN r2.val ELSE xpSI0,
       xnSI |-> IF r1.ok /\ r2.ok THEN r3.val ELSE xnSI0,
       xpSD |-> IF r1.ok /\ r2.ok /\ r3.ok THEN r4.val ELSE xpSD0,
       xnSD |-> IF r1.ok /\ r2.ok /\ r3.ok /\ r4.ok THEN r5.val ELSE xnSD0]

\* GetWIMPParams with the mass alone mandatory: a missing second field is
\* default-filled too.
GetWIMPParams_MassOnly(line, M0, xpSI0, xnSI0, xpSD0, xnSD0, zeroOnFail) ==
  LET r1 == Extract(line, M0, zeroOnFail)
      r2 == Extract(r1.rest, xpSI0, zeroOnFail)
      r3 == Extract(r2.rest, xnSI0, zeroOnFail)
      r4 == Extract(r3.rest, xpSD0, zeroOnFail)
      r5 == Extract(r4.rest, xnSD0, zeroOnFail)
  IN  IF ~r1.ok THEN
        [ret |-> FALSE, M |-> r1.val, xpSI |-> xpSI0, xnSI |-> xnSI0,
         xpSD |-> xpSD0, xnSD |-> xnSD0]
      ELSE IF ~r2.ok THEN
        [ret |-> TRUE, M |-> r1.val, xpSI |-> 0, xnSI |-> 0,
         xpSD |-> 0, xnSD |-> 0]
      ELSE IF ~r3.ok THEN
        [ret |-> TRUE, M |-> r1.val, xpSI |-> r2.val, xnSI |-> r2.val,
         xpSD |-> 0, xnSD |-> 0]
      ELSE IF ~r4.ok THEN
        [ret |-> TRUE, M |-> r1.val, xpSI |-> r2.val, xnSI |-> r3.val,
         xpSD |-> 0, xnSD |-> 0]
      ELSE IF ~r5.ok THEN
        [ret |-> TRUE, M |-> r1.val, xpSI |-> r2.val, xnSI |-> r3.val,
         xpSD |-> r4.val, xnSD |-> r4.val]
      ELSE
        [ret |-> TRUE, M |-> r1.val, xpSI |-> r2.val, xnSI |-> r3.val,
         xpSD |-> r4.val, xnSD |-> r5.val]

\* bool GetWIMPParams(type, M, xpSI, xnSI, xpSD, xnSD) after getline has put
\* `line` into the string stream: the value returned and the five reference
\* arguments as the call leaves them.
GetWIMPParams(line, M0, xpSI0, xnSI0, xpSD0, xnSD0, zeroOnFail) ==
  LET r1 == Extract(line, M0, zeroOnFail)
      r2 == Extract(r1.rest, xpSI0, zeroOnFail)
      r3 == Extract(r2.rest, xnSI0, zeroOnFail)
      r4 == Extract(r3.rest, xpSD0, zeroOnFail)
      r5 == Extract(r4.rest, xnSD0, zeroOnFail)
  IN  IF ~r1.ok THEN
        [ret |-> FALSE, M |-> r1.val, xpSI |-> xpSI0, xnSI |-> xnSI0,
         xpSD |-> xpSD0, xnSD |-> xnSD0]
      ELSE IF ~r2.ok THEN
        [ret |-> FALSE, M |-> r1.val, xpSI |-> r2.val, xnSI |-> xnSI0,
         xpSD |-> xpSD0, xnSD |-> xnSD0]
      ELSE IF ~r3.ok THEN
        [ret |-> TRUE, M |-> r1.val, xpSI |-> r2.val, xnSI |-> r2.val,
         xpSD |-> 0, xnSD |-> 0]
      ELSE IF ~r4.ok THEN
        [ret |-> TRUE, M |-> r1.val, xpSI |-> r2.val, xnSI |-> r3.val,
         xpSD |-> 0, xnSD |-> 0]
      ELSE IF ~r5.ok THEN
        [ret |-> TRUE, M |-> r1.val, xpSI |-> r2.val, xnSI |-> r3.val,
         xpSD |-> r4.val, xnSD |-> r4.val]
      ELSE
        [ret |-> TRUE, M |-> r1.val, xpSI |-> r2.val, xnSI |-> r3.val,
         xpSD |-> r4.val, xnSD |-> r5.val]

\* ------------------------------------------------------------------ inputs

\* The command-line arguments the model draws argv from: the three options
\* main compares against and one it does not know.
Args == {"--mG", "--mfa", "--help", "--foo"}

ArgVectors == UNION {[1..n -> Args] : n \in 0..MaxArgs}

\* The tokens the lines of standard input are made of: the numbers "1" and
\* "2", a token no number starts with, and a number with such a character
\* after it.  The character is one that no numeric field holds (it is none
\* of the digits, letters and signs an extraction collects before it
\* converts), so that the extraction stops in front of it.
BadToken == <<"?">>

PartToken == <<"1", "?">>

\* What follows the leading numbers of a line: nothing, a malformed token, a
\* token that starts as a number, a malformed token with a number after it.
Tails == {<< >>, <<BadToken>>, <<PartToken>>, <<BadToken, <<"1">>>>}

RECURSIVE Join(_)
Join(tokens) ==
  IF tokens = << >> THEN << >>
  ELSE IF Len(tokens) = 1 THEN Head(tokens)
  ELSE Head(tokens) \o <<" ">> \o Join(Tail(tokens))

\* The leading numbers of a line: k tokens "1", at most one of them replaced
\* by "2" (the results tell every field from every other).
Leading(k) ==
  {[j \in 1..k |-> IF j = two THEN <<"2">> ELSE <<"1">>] : two \in 0..k}

TokenLines ==
  {p \o t : p \in UNION {Leading(k) : k \in 0..NumFields}, t \in Tails}

\* The lines standard input can deliver, as characters: the token lines of
\* at most NumFields + 1 tokens, and a line of one blank.
Lines ==
  {Join(ts) : ts \in {u \in TokenLines : Len(u) <= NumFields + 1}} \cup {<<" ">>}


\* -------------------------------------------------------------------- state

VARIABLES
  argv,      \* argv[1..argc-1], the arguments after the program's name
  i,         \* the index of the argument scan
  type,      \* TYPE_MG or TYPE_MFA
  M, xpSI, xnSI, xpSD, xnSD,              \* main's mass and couplings
  Halo, WIMP, XENON, LUX, SCDMS, SIMPLE,   \* main's object indices
  pc,        \* the statement main is at
  status,    \* the exit status of the process, Indeterminate while it runs
  line,      \* the line the last getline of GetWIMPParams extracted
  eof,       \* standard input has been found at end of stream
  nread,     \* the lines standard input has delivered
  out,       \* what has been written to standard output, one entry per item
  objects,   \* library: the objects it holds, in the order of creation
  wimpMass,  \* library: the mass of the WIMP object
  freed,     \* library: the number of FreeAll calls
  calls,     \* every call made to the library, in order, with its indices
  call       \* the library call of the last step with all its arguments

vars ==
  <<argv, i, type, M, xpSI, xnSI, xpSD, xnSD, Halo, WIMP, XENON, LUX, SCDMS,
    SIMPLE, pc, status, line, eof, nread, out, objects, wimpMass, freed,
    calls, call>>

params == <<M, xpSI, xnSI, xpSD, xnSD>>

handles == <<Halo, WIMP, XENON, LUX, SCDMS, SIMPLE>>

stdin == <<line, eof, nread>>

NoCall == [op |-> "", args |-> << >>]

\* An item written to standard output.
Item(tag, text) == [tag |-> tag, text |-> text]

\* ------------------------------------------------------------- the library

\* The index a factory function returns: the object's place among the
\* objects of its kind.
NewIndex(kind) ==
  Cardinality({k \in 1..Len(objects) : objects[k].kind = kind}) + 1

\* A factory call: the library holds one more object and the call is logged.
Create(kind, name, op, index) ==
  /\ index = NewIndex(kind)
  /\ objects' = Append(objects, [kind |-> kind, name |-> name, index |-> index])
  /\ calls' = Append(calls, [op |-> op, h |-> <<index>>])
  /\ call' = [op |-> op, args |-> << >>]
  /\ UNCHANGED <<wimpMass, freed>>

\* Any other call: logged with the indices passed, the objects left alone.
Invoke(op, h, args) ==
  /\ calls' = Append(calls, [op |-> op, h |-> h])
  /\ call' = [op |-> op, args |-> args]
  /\ UNCHANGED <<objects, freed>>

\* ------------------------------------------------------------------- main

Init ==
  /\ argv \in ArgVectors
  /\ i = 1
  /\ type = TYPE_MFA
  /\ M = Indeterminate /\ xpSI = Indeterminate /\ xnSI = Indeterminate
  /\ xpSD = Indeterminate /\ xnSD = Indeterminate
  /\ Halo = Indeterminate /\ WIMP = Indeterminate /\ XENON = Indeterminate
  /\ LUX = Indeterminate /\ SCDMS = Indeterminate /\ SIMPLE = Indeterminate
  /\ pc = "args"
  /\ status = Indeterminate
  /\ line = << >>
  /\ eof = FALSE
  /\ nread = 0
  /\ out = << >>
  /\ objects = << >>
  /\ wimpMass = Indeterminate
  /\ freed = 0
  /\ calls = << >>
  /\ call = NoCall

library == <<objects, wimpMass, freed, calls, call>>

\* The --mG branch assigning the default type.
OptMG_SetsMFA ==
  /\ pc = "args" /\ i <= Len(argv)
  /\ argv[i] = "--mG"
  /\ type' = TYPE_MFA
  /\ i' = i + 1
  /\ UNCHANGED <<argv, params, handles, pc, status, stdin, out, library>>

\* for (i=1; i<argc; i++) with argv[i] == "--mG"
OptMG ==
  /\ pc = "args" /\ i <= Len(argv)
  /\ argv[i] = "--mG"
  /\ type' = TYPE_MG
  /\ i' = i + 1
  /\ UNCHANGED <<argv, params, handles, pc, status, stdin, out, library>>

\* ... with argv[i] == "--mfa"
OptMFA ==
  /\ pc = "args" /\ i <= Len(argv)
  /\ argv[i] # "--mG" /\ argv[i] = "--mfa"
  /\ type' = TYPE_MFA
  /\ i' = i + 1
  /\ UNCHANGED <<argv, params, handles, pc, status, stdin, out, library>>

\* The --help branch without its exit(0): the usage is printed and the scan
\* goes on.
OptHelp_NoExit ==
  /\ pc = "args" /\ i <= Len(argv)
  /\ argv[i] # "--mG" /\ argv[i] # "--mfa" /\ argv[i] = "--help"
  /\ out' = Append(out, Item("Usage:", "./DDCalc_exampleC [--mG|--mfa]"))
  /\ i' = i + 1
  /\ UNCHANGED <<argv, type, params, handles, pc, status, stdin, library>>

\* ... with argv[i] == "--help": the usage is printed and exit(0) ends the
\* process where it stands.
OptHelp ==
  /\ pc = "args" /\ i <= Len(argv)
  /\ argv[i] # "--mG" /\ argv[i] # "--mfa" /\ argv[i] = "--help"
  /\ out' = Append(out, Item("Usage:", "./DDCalc_exampleC [--mG|--mfa]"))
  /\ status' = 0
  /\ pc' = "exit"
  /\ UNCHANGED <<argv, i, type, params, handles, stdin, library>>

\* The else branch putting the type back to its default.
OptUnknown_ResetsMode ==
  /\ pc = "args" /\ i <= Len(argv)
  /\ argv[i] # "--mG" /\ argv[i] # "--mfa" /\ argv[i] # "--help"
  /\ out' = Append(out, Item("WARNING:  Ignoring unknown argument", argv[i]))
  /\ type' = TYPE_MFA
  /\ i' = i + 1
  /\ UNCHANGED <<argv, params, handles, pc, status, stdin, library>>

\* ... with any other argv[i]: a warning, and the scan goes on.
OptUnknown ==
  /\ pc = "args" /\ i <= Len(argv)
  /\ argv[i] # "--mG" /\ argv[i] # "--mfa" /\ argv[i] # "--help"
  /\ out' = Append(out, Item("WARNING:  Ignoring unknown argument", argv[i]))
  /\ i' = i + 1
  /\ UNCHANGED <<argv, type, params, handles, pc, status, stdin, library>>

\* main without its InitHalo call: Halo stays as declared.
InitHalo_Skipped ==
  /\ pc = "args" /\ ~(i <= Len(argv))
  /\ pc' = "InitWIMP"
  /\ UNCHANGED <<argv, i, type, params, handles, status, stdin, out, library>>

\* Halo = DDCalc::InitHalo(), once the scan is over.
InitHalo ==
  /\ pc = "args" /\ ~(i <= Len(argv))
  /\ Create("Halo", "Halo", "InitHalo", Halo')
  /\ pc' = "InitWIMP"
  /\ UNCHANGED <<argv, i, type, params, WIMP, XENON, LUX, SCDMS, SIMPLE,
                 status, stdin, out>>

\* WIMP = DDCalc::InitWIMP()
InitWIMP ==
  /\ pc = "InitWIMP"
  /\ Create("WIMP", "WIMP", "InitWIMP", WIMP')
  /\ pc' = "XENON100_2012_Init"
  /\ UNCHANGED <<argv, i, type, params, Halo, XENON, LUX, SCDMS, SIMPLE,
                 status, stdin, out>>

\* XENON = DDCalc::XENON100_2012_Init()
XENON100_2012_Init ==
  /\ pc = "XENON100_2012_Init"
  /\ Create("Detector", "XENON100_2012", "XENON100_2012_Init", XENON')
  /\ pc' = "LUX_2013_Init"
  /\ UNCHANGED <<argv, i, type, params, Halo, WIMP, LUX, SCDMS, SIMPLE,
                 status, stdin, out>>

\* LUX = DDCalc::LUX_2013_Init()
LUX_2013_Init ==
  /\ pc = "LUX_2013_Init"
  /\ Create("Detector", "LUX_2013", "LUX_2013_Init", LUX')
  /\ pc' = "SuperCDMS_2014_Init"
  /\ UNCHANGED <<argv, i, type, params, Halo, WIMP, XENON, SCDMS, SIMPLE,
                 status, stdin, out>>

\* SCDMS = DDCalc::SuperCDMS_2014_Init()
SuperCDMS_2014_Init ==
  /\ pc = "SuperCDMS_2014_Init"
  /\ Create("Detector", "SuperCDMS_2014", "SuperCDMS_2014_Init", SCDMS')
  /\ pc' = "SIMPLE_2014_Init"
  /\ UNCHANGED <<argv, i, type, params, Halo, WIMP, XENON, LUX, SIMPLE,
                 status, stdin, out>>

\* SIMPLE = DDCalc::SIMPLE_2014_Init(); the input loop is next.
SIMPLE_2014_Init ==
  /\ pc = "SIMPLE_2014_Init"
  /\ Create("Detector", "SIMPLE_2014", "SIMPLE_2014_Init", SIMPLE')
  /\ pc' = "GetWIMPParams"
  /\ UNCHANGED <<argv, i, type, params, Halo, WIMP, XENON, LUX, SCDMS,
                 status, stdin, out>>

\* ------------------------------------------------------------ the input loop

\* The prompt GetWIMPParams prints for the type it is given.
Prompt(t) ==
  IF t = TYPE_MG THEN Item("Enter values", "<M GpSI GnSI GpSD GnSD>:")
  ELSE IF t = TYPE_MFA THEN Item("Enter values", "<M fp fn ap an>:")
  ELSE Item("", "")

\* while(GetWIMPParams(type,M,xpSI,xnSI,xpSD,xnSD)): the prompt, getline,
\* the parse, and the branch on the value returned.  getline either extracts
\* the next line of standard input or finds the end of the stream and leaves
\* the line empty.
LoopTest ==
  /\ pc = "GetWIMPParams"
  /\ out' = Append(out, Prompt(type))
  /\ \/ /\ ~eof /\ nread < MaxLines
        /\ line' \in Lines
        /\ nread' = nread + 1
        /\ eof' = eof
     \/ /\ line' = << >>
        /\ eof' = TRUE
        /\ nread' = nread
  /\ \E r \in {GetWIMPParams(line', M, xpSI, xnSI, xpSD, xnSD, zeroOnFail) :
                  zeroOnFail \in BOOLEAN} :
       /\ M' = r.M /\ xpSI' = r.xpSI /\ xnSI' = r.xnSI
       /\ xpSD' = r.xpSD /\ xnSD' = r.xnSD
       /\ pc' = IF r.ret THEN "SetWIMP" ELSE "FreeAll"
  /\ call' = NoCall
  /\ UNCHANGED <<argv, i, type, handles, status, objects, wimpMass, freed,
                 calls>>

\* The switch calling SetWIMP_mfa in both cases.
SetWIMP_AlwaysMfa ==
  /\ pc = "SetWIMP"
  /\ Invoke("SetWIMP_mfa", <<WIMP>>, <<WIMP, M, xpSI, xnSI, xpSD, xnSD>>)
  /\ wimpMass' = M
  /\ pc' = "GetWIMP_mfa"
  /\ UNCHANGED <<argv, i, type, params, handles, status, stdin, out>>

\* switch (type): DDCalc::SetWIMP_mG or DDCalc::SetWIMP_mfa with main's five
\* parameters; a type that is neither makes no call.
SetWIMP ==
  /\ pc = "SetWIMP"
  /\ \/ /\ type = TYPE_MG
        /\ Invoke("SetWIMP_mG", <<WIMP>>, <<WIMP, M, xpSI, xnSI, xpSD, xnSD>>)
        /\ wimpMass' = M
     \/ /\ type = TYPE_MFA
        /\ Invoke("SetWIMP_mfa", <<WIMP>>, <<WIMP, M, xpSI, xnSI, xpSD, xnSD>>)
        /\ wimpMass' = M
     \/ /\ type # TYPE_MG /\ type # TYPE_MFA
        /\ UNCHANGED library
  /\ pc' = "GetWIMP_mfa"
  /\ UNCHANGED <<argv, i, type, params, handles, status, stdin, out>>

\* DDCalc::GetWIMP_mfa(WIMP,M,fp,fn,ap,an): M is the mass the library holds.
\* (fp, fn, ap, an and, below, GpSI, GnSI, GpSD, GnSD are the library's
\* conversions of the couplings; main only prints them, and the model does
\* not keep them.)
GetWIMP_mfa ==
  /\ pc = "GetWIMP_mfa"
  /\ Invoke("GetWIMP_mfa", <<WIMP>>, <<WIMP>>)
  /\ M' = wimpMass
  /\ pc' = "GetWIMP_mG"
  /\ UNCHANGED <<argv, i, type, xpSI, xnSI, xpSD, xnSD, handles, status,
                 stdin, out, wimpMass>>

\* DDCalc::GetWIMP_mG(WIMP,M,GpSI,GnSI,GpSD,GnSD), then the mass and the two
\* rows of couplings are printed.
GetWIMP_mG ==
  /\ pc = "GetWIMP_mG"
  /\ Invoke("GetWIMP_mG", <<WIMP>>, <<WIMP>>)
  /\ M' = wimpMass
  /\ out' = out \o <<Item("row", "WIMP mass [GeV]"), Item("row", "G [GeV^-2]"),
                     Item("row", "f & a [GeV^-2,unitless]")>>
  /\ pc' = "CalcRates_XENON"
  /\ UNCHANGED <<argv, i, type, xpSI, xnSI, xpSD, xnSD, handles, status,
                 stdin, wimpMass>>

\* DDCalc::CalcRates(D,WIMP,Halo) for one detector.
CalcRates(at, D, next) ==
  /\ pc = at
  /\ Invoke("CalcRates", <<D, WIMP, Halo>>, <<D, WIMP, Halo>>)
  /\ pc' = next
  /\ UNCHANGED <<argv, i, type, params, handles, status, stdin, out, wimpMass>>

CalcRates_XENON == CalcRates("CalcRates_XENON", XENON, "CalcRates_LUX")

CalcRates_LUX == CalcRates("CalcRates_LUX", LUX, "CalcRates_SCDMS")

CalcRates_SCDMS == CalcRates("CalcRates_SCDMS", SCDMS, "CalcRates_SIMPLE")

CalcRates_SIMPLE == CalcRates("CalcRates_SIMPLE", SIMPLE, "Events")

\* One printf of a row of the table: the accessor is called for the four
\* detectors (in an order the language leaves open; the log keeps the call
\* once, with the four indices in the order of the arguments).
Row(at, accessor, label, next) ==
  /\ pc = at
  /\ Invoke(accessor, <<XENON, LUX, SCDMS, SIMPLE>>, <<XENON, LUX, SCDMS, SIMPLE>>)
  /\ out' = Append(out, Item("row", label))
  /\ pc' = next
  /\ UNCHANGED <<argv, i, type, params, handles, status, stdin, wimpMass>>

Events == Row("Events", "Events", "Observed events", "Background")

Background == Row("Background", "Background", "Expected background", "Signal")

Signal == Row("Signal", "Signal", "Expected signal", "LogLikelihood")

LogLikelihood ==
  Row("LogLikelihood", "LogLikelihood", "Log-likelihood", "ScaleToPValue")

\* The last row of the report; the loop tests its condition again.
ScaleToPValue ==
  Row("ScaleToPValue", "ScaleToPValue", "Rescaling for 90% CL", "GetWIMPParams")

\* main returning without the FreeAll call.
FreeAll_Skipped ==
  /\ pc = "FreeAll"
  /\ status' = 0
  /\ pc' = "exit"
  /\ UNCHANGED <<argv, i, type, params, handles, stdin, out, library>>

\* main ending with a return 1 after FreeAll.
FreeAll_ReturnsOne ==
  /\ pc = "FreeAll"
  /\ objects' = << >>
  /\ freed' = freed + 1
  /\ calls' = Append(calls, [op |-> "FreeAll", h |-> << >>])
  /\ call' = [op |-> "FreeAll", args |-> << >>]
  /\ status' = 1
  /\ pc' = "exit"
  /\ UNCHANGED <<argv, i, type, params, handles, stdin, out, wimpMass>>

\* DDCalc::FreeAll(), and main returns: the exit status is 0.
FreeAll ==
  /\ pc = "FreeAll"
  /\ objects' = << >>
  /\ freed' = freed + 1
  /\ calls' = Append(calls, [op |-> "FreeAll", h |-> << >>])
  /\ call' = [op |-> "FreeAll", args |-> << >>]
  /\ status' = 0
  /\ pc' = "exit"
  /\ UNCHANGED <<argv, i, type, params, handles, stdin, out, wimpMass>>

Next ==
  \/ OptMG \/ OptMFA \/ OptHelp \/ OptUnknown
  \/ InitHalo \/ InitWIMP
  \/ XENON100_2012_Init \/ LUX_2013_Init \/ SuperCDMS_2014_Init
  \/ SIMPLE_2014_Init
  \/ LoopTest
  \/ SetWIMP \/ GetWIMP_mfa \/ GetWIMP_mG
  \/ CalcRates_XENON \/ CalcRates_LUX \/ CalcRates_SCDMS \/ CalcRates_SIMPLE
  \/ Events \/ Background \/ Signal \/ LogLikelihood \/ ScaleToPValue
  \/ FreeAll

Spec == Init /\ [][Next]_vars

\* The program is one thread that runs whenever it can: a step that is
\* possible is taken (a read of a finite standard input returns).
FairSpec == Spec /\ WF_vars(Next)

\* ===================================================================
\* What the properties below are stated with.  None of it is used by the
\* actions above: it reads a line the way its reader does, token by token.
\* ===================================================================

Numerals == {"0", "1", "2", "3", "4", "5", "6", "7", "8", "9"}

\* The value of the one-digit numerals the input lines are written with.
NumeralValue(c) == IF c = "1" THEN 1 ELSE IF c = "2" THEN 2 ELSE 0

\* The whitespace-separated tokens of a line.
RECURSIVE Split(_, _)
Split(s, tok) ==
  IF s = << >> THEN (IF tok = << >> THEN << >> ELSE <<tok>>)
  ELSE IF Head(s) = " "
    THEN (IF tok = << >> THEN << >> ELSE <<tok>>) \o Split(Tail(s), << >>)
    ELSE Split(Tail(s), Append(tok, Head(s)))

TokensOf(l) == Split(l, << >>)

\* A token that is a number, and one that starts as a number.
IsNumber(tok) == tok # << >> /\ \A k \in 1..Len(tok) : tok[k] \in Numerals

StartsNumber(tok) == tok # << >> /\ tok[1] \in Numerals

\* The values of the leading numeric fields of a token list: its leading
\* numbers, and the numeric start of the token after them.
RECURSIVE LeadingValues(_)
LeadingValues(toks) ==
  IF toks = << >> THEN << >>
  ELSE IF IsNumber(Head(toks))
    THEN <<NumeralValue(Head(toks)[1])>> \o LeadingValues(Tail(toks))
  ELSE IF StartsNumber(Head(toks)) THEN <<NumeralValue(Head(toks)[1])>>
  ELSE << >>

FieldsOf(l) == LeadingValues(TokensOf(l))

\* The complete five-field set the default-fill rule gives for two to five
\* leading fields f.
Filled(f) ==
  IF Len(f) = 2 THEN <<f[1], f[2], f[2], 0, 0>>
  ELSE IF Len(f) = 3 THEN <<f[1], f[2], f[3], 0, 0>>
  ELSE IF Len(f) = 4 THEN <<f[1], f[2], f[3], f[4], f[4]>>
  ELSE <<f[1], f[2], f[3], f[4], f[5]>>

\* The place of the first token of a line that is not a number (0: none).
FirstMalformed(l) ==
  LET toks == TokensOf(l)
      bad == {p \in 1..Len(toks) : ~IsNumber(toks[p])}
  IN  IF bad = {} THEN 0 ELSE CHOOSE p \in bad : \A q \in bad : p <= q

\* The field whose read meets the first non-numeric character of a line
\* (0: none): the field of the first malformed token, or the next one when
\* that token starts as a number.
FailingRead(l) ==
  LET p == FirstMalformed(l)
  IN  IF p = 0 THEN 0
      ELSE IF StartsNumber(TokensOf(l)[p]) THEN p + 1 ELSE p

\* Main has just come back from GetWIMPParams.
Returned == pc \in {"SetWIMP", "FreeAll"}

IsPrompt(item) == item.tag = "Enter values"

IsLastRow(item) == item.tag = "row" /\ item.text = "Rescaling for 90% CL"

IsRow(item) == item.tag = "row"

IsUsage(item) == item.tag = "Usage:"

IsWarning(item) == item.tag = "WARNING:  Ignoring unknown argument"

\* The prompts, the complete reports, the rows, the usages and the warnings
\* printed so far.
Prompts == Cardinality({k \in 1..Len(out) : IsPrompt(out[k])})

Reports == Cardinality({k \in 1..Len(out) : IsLastRow(out[k])})

Rows == Cardinality({k \in 1..Len(out) : IsRow(out[k])})

Usages == Cardinality({k \in 1..Len(out) : IsUsage(out[k])})

Warnings == Cardinality({k \in 1..Len(out) : IsWarning(out[k])})

HelpSeen == \E k \in 1..Len(out) : IsUsage(out[k])

CallsOf(ops) == Cardinality({k \in 1..Len(calls) : calls[k].op \in ops})

Setters == {"SetWIMP_mG", "SetWIMP_mfa"}

Getters == {"GetWIMP_mfa", "GetWIMP_mG"}

Accessors == {"Events", "Background", "Signal", "LogLikelihood", "ScaleToPValue"}

Factories ==
  <<"InitHalo", "InitWIMP", "XENON100_2012_Init", "LUX_2013_Init",
    "SuperCDMS_2014_Init", "SIMPLE_2014_Init">>

\* The calls that use an object of the library.
Uses == Setters \cup Getters \cup {"CalcRates"} \cup Accessors

KnownArgs == {"--mG", "--mfa", "--help"}

\* The mode the last mode flag of an argument vector names (the default
\* when it has none).
RECURSIVE LastMode(_)
LastMode(av) ==
  IF av = << >> THEN TYPE_MFA
  ELSE IF av[Len(av)] = "--mG" THEN TYPE_MG
  ELSE IF av[Len(av)] = "--mfa" THEN TYPE_MFA
  ELSE LastMode(SubSeq(av, 1, Len(av) - 1))

\* The argument scan has run to its end.
ScanDone == pc # "args" /\ ~HelpSeen

\* ------------------------------------------------------------------- C1
\* C1: a line with exactly k leading numeric fields, 2 <= k <= 5, makes
\* GetWIMPParams return true (main goes on to set the WIMP, not to FreeAll)
\* with (M, xpSI, xnSI, xpSD, xnSD) the default-filled set of those fields:
\* (M, x, x, 0, 0), (M, x, y, 0, 0), (M, x, y, z, z), or the five fields.
\* Nothing of what the five variables held before the call is left.
C1_DefaultFill ==
  Returned =>
    LET f == FieldsOf(line)
    IN  Len(f) \in 2..NumFields =>
          /\ pc = "SetWIMP"
          /\ <<M, xpSI, xnSI, xpSD, xnSD>> = Filled(f)

\* C1's case: the second line read has three fields after a first line that
\* left another mass and non-zero spin-dependent couplings behind.
C1_Witness ==
  /\ pc = "SetWIMP" /\ nread = 2
  /\ Len(FieldsOf(line)) = 3
  /\ wimpMass = 2 /\ M = 1
  /\ <<xpSD, xnSD>> = <<0, 0>>

\* ------------------------------------------------------------------- C2
\* C2 as stated: a line with a malformed token in any of its first five
\* places ends the loop (GetWIMPParams returns false).
C2_MalformedEndsLoop ==
  Returned /\ FirstMalformed(line) \in 1..NumFields => pc = "FreeAll"

\* C2 amended: the read that meets the first non-numeric character of a line
\* fails.  When it is the read of field 1 or 2 GetWIMPParams returns false:
\* the loop ends, and the line gets no report.  When it is the read of field
\* 3, 4 or 5 the line is taken to end there: the fields before it are
\* default-filled, GetWIMPParams returns true, and the line gets its report
\* (every prompt but the one of the line that ended the loop is followed by
\* a complete report before the next prompt or the end).
C2_MalformedField ==
  /\ Returned /\ FailingRead(line) \in 1..2 => pc = "FreeAll"
  /\ Returned /\ FailingRead(line) \in 3..NumFields =>
       /\ pc = "SetWIMP"
       /\ <<M, xpSI, xnSI, xpSD, xnSD>>
            = Filled(SubSeq(FieldsOf(line), 1, FailingRead(line) - 1))
  /\ pc = "GetWIMPParams" => Reports = Prompts
  /\ pc = "FreeAll" \/ (pc = "exit" /\ freed > 0) => Reports = Prompts - 1

\* C2's case: a line whose third token is malformed has got its report, and
\* the loop is about to prompt for the next line.
C2_Witness ==
  /\ pc = "GetWIMPParams" /\ Reports = 1
  /\ FirstMalformed(line) = 3 /\ FailingRead(line) = 3

\* ------------------------------------------------------------------- C3
\* C3: a blank line, the end of the stream, or a line with fewer than two
\* leading numeric fields makes GetWIMPParams return false; the loop ends
\* and between the read of that line and FreeAll no call is made to the
\* library and nothing is printed: every call of the loop has been made and
\* every report printed once per earlier line, none for this one.
C3_LoopEndsWithoutCall ==
  /\ Returned /\ Len(FieldsOf(line)) < 2 => pc = "FreeAll"
  /\ pc = "FreeAll" \/ (pc = "exit" /\ freed > 0) =>
       /\ Len(FieldsOf(line)) < 2
       /\ pc = "FreeAll" => call = NoCall
       /\ pc = "exit" => call.op = "FreeAll" /\ calls[Len(calls)].op = "FreeAll"
       /\ IsPrompt(out[Len(out)])
       /\ CallsOf(Setters) = Prompts - 1
       /\ CallsOf({"GetWIMP_mfa"}) = Prompts - 1
       /\ CallsOf({"GetWIMP_mG"}) = Prompts - 1
       /\ CallsOf({"CalcRates"}) = 4 * (Prompts - 1)
       /\ \A a \in Accessors : CallsOf({a}) = Prompts - 1
       /\ Rows = 8 * (Prompts - 1)

\* C3's case: a line of one number has ended the loop after a line that got
\* its report, and FreeAll has been called.
C3_Witness ==
  /\ pc = "exit" /\ freed = 1 /\ Reports = 1
  /\ ~eof /\ Len(FieldsOf(line)) = 1

\* ------------------------------------------------------------------- C4
\* C4 as stated: every execution, whatever its arguments, has called FreeAll
\* exactly once when the process ends.
C4_FreeAllInEveryExecution == pc = "exit" => freed = 1

\* C4 amended: FreeAll is never called more than once, and never before the
\* input loop has ended.  An execution whose argument scan does not reach
\* --help has called it exactly once when the process ends; one that reaches
\* --help ends without calling it.
C4_FreeAllOnce ==
  /\ freed \in {0, 1}
  /\ freed = CallsOf({"FreeAll"})
  /\ freed = 1 =>
       /\ pc = "exit"
       /\ Prompts >= 1 /\ IsPrompt(out[Len(out)])
       /\ calls[Len(calls)].op = "FreeAll"
  /\ pc = "exit" /\ ~HelpSeen => freed = 1
  /\ HelpSeen => freed = 0

\* C4's case: the process has ended after two lines were reported, FreeAll
\* called once.
C4_Witness == pc = "exit" /\ ~HelpSeen /\ Reports = 2 /\ freed = 1

\* ------------------------------------------------------------------- C5
\* C5: an argument vector with --help never gets the program past the scan.
\* The scan stops at the first --help: the usage is the last thing printed,
\* the exit status is 0, the arguments after it are not looked at (no
\* warning is printed for them), no library object exists, no call has been
\* made, no prompt printed and no line read.
C5_HelpExits ==
  LET helps == {k \in 1..Len(argv) : argv[k] = "--help"}
      first == CHOOSE k \in helps : \A q \in helps : k <= q
      before == SubSeq(argv, 1, first - 1)
      unknown == {k \in 1..Len(before) : before[k] \notin KnownArgs}
  IN  /\ HelpSeen => helps # {} /\ pc = "exit"
      /\ helps # {} =>
           /\ pc \in {"args", "exit"}
           /\ i <= first
           /\ objects = << >> /\ calls = << >> /\ freed = 0
           /\ handles = <<Indeterminate, Indeterminate, Indeterminate,
                          Indeterminate, Indeterminate, Indeterminate>>
           /\ Prompts = 0 /\ nread = 0 /\ ~eof /\ line = << >>
           /\ pc = "args" => ~HelpSeen /\ status = Indeterminate
           /\ pc = "exit" =>
                /\ i = first /\ status = 0
                /\ IsUsage(out[Len(out)]) /\ Usages = 1
                /\ Warnings = Cardinality(unknown)

\* C5's case: --help between an unknown argument and a mode flag.
C5_Witness ==
  /\ pc = "exit" /\ HelpSeen
  /\ Len(argv) = 3 /\ argv[1] = "--foo" /\ argv[2] = "--help" /\ argv[3] = "--mG"

\* ------------------------------------------------------------------- C6
\* C6: once the argument scan is over, the mode is raw-coupling (TYPE_MG)
\* when the arguments hold --mG and no --mfa, and standard-coupling
\* (TYPE_MFA) when they hold neither; every prompt printed is the one of
\* that mode.
C6_ModeSelection ==
  LET has(a) == \E k \in 1..Len(argv) : argv[k] = a
  IN  ScanDone =>
        /\ has("--mG") /\ ~has("--mfa") =>
             /\ type = TYPE_MG
             /\ \A k \in 1..Len(out) :
                  IsPrompt(out[k]) => out[k].text = "<M GpSI GnSI GpSD GnSD>:"
        /\ ~has("--mG") /\ ~has("--mfa") =>
             /\ type = TYPE_MFA
             /\ \A k \in 1..Len(out) :
                  IsPrompt(out[k]) => out[k].text = "<M fp fn ap an>:"

\* C6's case: --mG among unknown arguments, and the prompt printed.
C6_Witness ==
  /\ argv = <<"--foo", "--mG", "--foo">>
  /\ Prompts = 1 /\ type = TYPE_MG

\* ------------------------------------------------------------------- C7
\* C7: every call that uses a library object (a Set or Get of the WIMP,
\* CalcRates, a detector accessor) comes after the six factory calls, which
\* are the first six calls and in the order Halo, WIMP, XENON100_2012,
\* LUX_2013, SuperCDMS_2014, SIMPLE_2014; it passes the indices those calls
\* returned; the six objects exist when it is made; and no call at all
\* follows FreeAll.
C7_HandlesValid ==
  /\ \A k \in 1..Len(calls) :
       /\ k <= Len(Factories) => calls[k].op = Factories[k]
       /\ calls[k].op = "FreeAll" => k = Len(calls)
       /\ calls[k].op \in Uses =>
            /\ k > Len(Factories)
            /\ calls[k].op \in Setters \cup Getters =>
                 calls[k].h = calls[2].h
            /\ calls[k].op = "CalcRates" =>
                 /\ calls[k].h[1] \in
                      {calls[3].h[1], calls[4].h[1], calls[5].h[1], calls[6].h[1]}
                 /\ calls[k].h[2] = calls[2].h[1]
                 /\ calls[k].h[3] = calls[1].h[1]
            /\ calls[k].op \in Accessors =>
                 calls[k].h = calls[3].h \o calls[4].h \o calls[5].h \o calls[6].h
  /\ call.op \in Uses =>
       /\ freed = 0
       /\ [k \in 1..Len(objects) |-> objects[k].name]
            = <<"Halo", "WIMP", "XENON100_2012", "LUX_2013", "SuperCDMS_2014",
                "SIMPLE_2014">>
       /\ \E k \in 1..Len(objects) :
            objects[k].kind = "Halo" /\ objects[k].index = Halo
       /\ \E k \in 1..Len(objects) :
            objects[k].kind = "WIMP" /\ objects[k].index = WIMP
       /\ \A d \in {XENON, LUX, SCDMS, SIMPLE} :
            \E k \in 1..Len(objects) :
              objects[k].kind = "Detector" /\ objects[k].index = d

\* C7's case: the rates of the last detector are being computed for the
\* second line.
C7_Witness ==
  /\ call.op = "CalcRates" /\ call.args = <<SIMPLE, WIMP, Halo>>
  /\ CallsOf({"CalcRates"}) = 8

\* ------------------------------------------------------------------- C8
\* C8: whatever the arguments and the (finite) standard input, the program
\* leaves the input loop and the process ends with exit status 0; once
\* standard input has been found at its end the loop is over (the next step
\* is FreeAll), it does not prompt or read again.
C8_Terminates ==
  /\ <>(pc = "exit" /\ status = 0)
  /\ [](eof => pc \in {"FreeAll", "exit"})

\* C8's case: the process has ended with status 0 after standard input
\* delivered all its lines, each with a report, and was then found at its
\* end, with no blank line before it.
C8_Witness ==
  /\ pc = "exit" /\ status = 0
  /\ eof /\ nread = MaxLines /\ Reports = MaxLines

\* ------------------------------------------------------------------- C9
\* C9: after the six factory calls the calls to the library come in rounds
\* of twelve, one round per line parsed: one WIMP setter, SetWIMP_mG in
\* raw-coupling mode and SetWIMP_mfa in standard-coupling mode, passing the
\* default-filled fields of the line; GetWIMP_mfa; GetWIMP_mG; CalcRates for
\* XENON, LUX, SCDMS and SIMPLE with the same WIMP and Halo; and only then
\* the detector accessors.  The setter of every round, and every prompt, is
\* the one of the mode the argument scan selected.
C9_CallProtocol ==
  LET n == Len(Factories)
      round(k) == ((k - n - 1) % 12) + 1
      setter == IF type = TYPE_MG THEN "SetWIMP_mG" ELSE "SetWIMP_mfa"
      dets == <<XENON, LUX, SCDMS, SIMPLE>>
  IN  /\ \A k \in (n + 1)..Len(calls) :
           calls[k].op # "FreeAll" =>
             /\ round(k) = 1 => calls[k] = [op |-> setter, h |-> <<WIMP>>]
             /\ round(k) = 2 => calls[k] = [op |-> "GetWIMP_mfa", h |-> <<WIMP>>]
             /\ round(k) = 3 => calls[k] = [op |-> "GetWIMP_mG", h |-> <<WIMP>>]
             /\ round(k) \in 4..7 =>
                  calls[k] = [op |-> "CalcRates",
                              h |-> <<dets[round(k) - 3], WIMP, Halo>>]
             /\ round(k) \in 8..12 <=> calls[k].op \in Accessors
      /\ \A a \in Accessors : CallsOf({a}) <= CallsOf(Setters)
      /\ call.op \in Setters =>
           /\ Len(FieldsOf(line)) >= 2
           /\ call.args = <<WIMP>> \o
                Filled(SubSeq(FieldsOf(line), 1,
                              IF Len(FieldsOf(line)) > NumFields
                              THEN NumFields ELSE Len(FieldsOf(line))))
      /\ ScanDone =>
           /\ type = LastMode(argv)
           /\ \A k \in 1..Len(out) : IsPrompt(out[k]) => out[k] = Prompt(type)
      /\ CallsOf(Setters) + CallsOf({"FreeAll"}) <= Prompts

\* C9's case: in raw-coupling mode the second line has been parsed and its
\* round of calls has come to the accessors.
C9_Witness ==
  /\ type = TYPE_MG /\ CallsOf({"SetWIMP_mG"}) = 2
  /\ call.op = "Events" /\ CallsOf({"CalcRates"}) = 8

\* ------------------------------------------------------------------ C10
\* C10: once the argument scan is over the mode is the one the last mode
\* flag of the arguments names (the default without one), wherever and
\* however many the unknown arguments are; each unknown argument has got one
\* warning, in order; and the program has gone on: it ends only by FreeAll.
C10_MixedArguments ==
  LET unknown == SelectSeq(argv, LAMBDA a : a \notin KnownArgs)
      flags == SelectSeq(argv, LAMBDA a : a \in {"--mG", "--mfa"})
      warned == SelectSeq(out, IsWarning)
  IN  /\ ScanDone =>
           /\ type = LastMode(flags)
           /\ Len(warned) = Len(unknown)
           /\ \A k \in 1..Len(warned) : warned[k].text = unknown[k]
           /\ pc = "exit" => freed = 1
      /\ pc = "args" /\ i <= Len(argv) /\ argv[i] \notin KnownArgs =>
           ENABLED OptUnknown

\* C10's case: both mode flags with an unknown argument between them.
C10_Witness ==
  /\ argv = <<"--mfa", "--foo", "--mG">>
  /\ ScanDone /\ type = TYPE_MG /\ Prompts = 1

=============================================================================
